---- MODULE Spec2Model ----
(***************************************************************************)
(* Session core of the CleanCuts backend (routes/auth.js): registration,   *)
(* login, refresh-token rotation, logout, and the periodic cleanup of the  *)
(* refresh-token collection (server.js / Server.js cron job and the TTL    *)
(* index of models/RefreshToken.js).                                       *)
(* The order routes (routes/orderRoutes.js) are modelled apart, under      *)
(* OrderSpec, for a client that is signed in.                              *)
(*                                                                         *)
(* Each request handler is split at its store calls: one action per call   *)
(* that reaches the database, together with the synchronous code that      *)
(* runs when the call returns.  Time is the wall clock in whole seconds,   *)
(* the resolution of the iat/exp claims that jsonwebtoken writes into a    *)
(* token; the seven-day lifetime is scaled down to RefreshTTL seconds.     *)
(***************************************************************************)
EXTENDS Integers, FiniteSets, Sequences, TLC

\* ----- bounds of the model
Procs == {1, 2}          \* request handlers that may be in flight together
MaxTime == 2             \* last clock value
MaxRecords == 4          \* refresh-token documents created in one run
MaxOrders == 2           \* gateway orders created in one run
RefreshTTL == 2          \* "7d" of auth.js:72,78,185,190 scaled to clock ticks
LoginAccessTTL == 1      \* "15m" of auth.js:182 scaled to clock ticks
RefreshAccessTTL == 1    \* "1m" of auth.js:67 scaled to clock ticks

Phones == {"9999999999"}
Emails == {"a@b.com"}
Passwords == {"longenough1", "wrongpass99"}
RegPasswords == {"longenough1"}

VARIABLES
  now,        \* Date.now() in seconds
  users,      \* the User collection
  nextUid,    \* next User _id
  ledger,     \* the RefreshToken collection
  nextId,     \* next RefreshToken _id
  pc,         \* per handler: where it is suspended
  req,        \* per handler: the request being served
  loc,        \* per handler: its local variables
  resp,       \* the response the last step sent, if it sent one
  cookies,    \* refresh tokens delivered to clients by Set-Cookie
  bearer,     \* access tokens delivered to clients in response bodies
  rotated,    \* history: tokens presented by a Refresh that answered 200
  lineage,    \* history, per user id: "none", "chain" or "broken"
  lastIssued, \* history, per user id: the document created last in its chain
  loginsSince, \* history, per user id: logins since the last successful Refresh
  orders,     \* the Order collection, in order of creation (_id = index)
  nextGw,     \* next order id of the payment gateway
  receipts    \* payment receipts the gateway has handed to clients

vars == <<now, users, nextUid, ledger, nextId, pc, req, loc, resp, cookies,
          bearer, rotated, lineage, lastIssued, loginsSince,
          orders, nextGw, receipts>>

\* the unique indexes allow one user document per phone
UserIds == 1..Cardinality(Phones)

\* ----- tokens (jsonwebtoken)
NoToken == [id |-> 0, phone |-> "", iat |-> 0, exp |-> 0, sig |-> "none"]
ForgedToken == [id |-> 1, phone |-> "9999999999", iat |-> 0, exp |-> 99, sig |-> "forged"]

\* jwt.sign(payload, REFRESH_TOKEN_SECRET, {expiresIn: "7d"}): the string is a
\* function of the payload, the issue second and the secret, nothing else.
Sign(id, phone, t) ==
  [id |-> id, phone |-> phone, iat |-> t, exp |-> t + RefreshTTL, sig |-> "server"]

\* jwt.verify(token, REFRESH_TOKEN_SECRET): resolves iff the signature is the
\* server's and the clock has not reached exp.
Verify(tok, t) == tok.sig = "server" /\ t < tok.exp

\* jwt.sign(payload, ACCESS_TOKEN_SECRET, {expiresIn}): signed with the other
\* secret, so neither kind of token verifies as the other
ForgedAccess == [id |-> 1, phone |-> "9999999999", iat |-> 0, exp |-> 99, sig |-> "forged"]
SignAccess(id, phone, t, ttl) ==
  [id |-> id, phone |-> phone, iat |-> t, exp |-> t + ttl, sig |-> "access"]

\* jwt.verify(token, ACCESS_TOKEN_SECRET) of authenticateToken
VerifyAccessLedger(tok, t) ==
  tok.sig = "access" /\ t < tok.exp /\ \E r \in ledger : r.userId = tok.id /\ ~r.revoked
VerifyAccess(tok, t) == tok.sig = "access" /\ t < tok.exp

\* bcrypt.hash / bcrypt.compare
Hash(pw) == <<"bcrypt", pw>>
Compare(pw, h) == h = Hash(pw)

\* ----- responses and locals
\* raced is history: this Refresh revoked while another Refresh of the user,
\* presenting another token, had passed its lookup and not yet stored
NoLoc == [uid |-> 0, phone |-> "", email |-> "", pw |-> "", tok |-> NoToken,
          acc |-> NoToken, exp |-> 0, raced |-> FALSE,
          oid |-> 0, gw |-> 0, pay |-> ""]
NoReq == [op |-> "none", tok |-> NoToken]
NoResp == [op |-> "none", status |-> 0, error |-> ""]

\* res.status(status).json({error}): error is "" when the body has no error
\* member (the 2xx bodies)
ReplyError(op, status, error) == [op |-> op, status |-> status, error |-> error]

\* the error strings of the branches that are alone in their status
ErrorText(op, status) ==
  CASE op = "refresh" /\ status = 401 -> "Refresh token missing."
    [] op = "refresh" /\ status = 403 -> "Invalid refresh token."
    [] op = "refresh" /\ status = 500 -> "Server error during token refresh."
    [] op = "login" /\ status = 400 -> "Phone and password are required."
    [] op = "login" /\ status = 500 -> "Server error."
    [] op = "logout" /\ status = 500 -> "Server error during logout."
    [] op = "me" /\ status = 401 -> "Access token missing."
    [] op = "me" /\ status = 403 -> "Invalid or expired access token."
    [] op = "me" /\ status = 404 -> "User not found."
    [] op = "me" /\ status = 500 -> "Server error."
    [] op = "orders/create" /\ status = 401 -> "Access token missing."
    [] op = "orders/create" /\ status = 403 -> "Invalid or expired access token."
    [] op = "orders/create" /\ status = 500 -> "Failed to create order"
    [] op = "orders/verify" /\ status = 401 -> "Access token missing."
    [] op = "orders/verify" /\ status = 403 -> "Invalid or expired access token."
    [] op = "orders/verify" /\ status = 404 -> "Order not found"
    [] op = "orders/verify" /\ status = 500 -> "Failed to verify payment"
    [] op = "register" /\ status = 400 -> "All fields are required."
    [] op = "register" /\ status = 500 -> "Server error."
    [] OTHER -> ""

Reply(op, status) == ReplyError(op, status, ErrorText(op, status))

\* auth.js:166 and auth.js:170, the two 401 branches of /login
LoginUnknownPhoneTold == ReplyError("login", 404, "User not found.")
LoginUnknownPhone == ReplyError("login", 401, "Invalid phone or password.")
LoginWrongPassword == ReplyError("login", 401, "Invalid phone or password.")

\* auth.js:131-133 and auth.js:138-140, the two 409 branches of /register
RegisterPhoneTaken == ReplyError("register", 409, "User with this phone already exists.")
RegisterEmailTaken == ReplyError("register", 409, "User with this email already exists.")

\* ----- ledger queries
NonRevoked(L, uid) == {r \in L : r.userId = uid /\ ~r.revoked}
IsActive(r, t) == ~r.revoked /\ r.expiresAt > t
Active(L, uid, t) == {r \in L : r.userId = uid /\ IsActive(r, t)}

\* RefreshToken.findOne({token, revoked: false})
FindStoredAnyState(L, tok) == {r \in L : r.token = tok}
FindStored(L, tok) == {r \in L : r.token = tok /\ ~r.revoked}

\* RefreshToken.updateMany({userId, revoked: false}, {revoked: true})
RevokePresentedOnly(L, uid, tok) ==
  {IF r.token = tok /\ ~r.revoked THEN [r EXCEPT !.revoked = TRUE] ELSE r : r \in L}
RevokeSkipped(L, uid, tok) == L
RevokeAll(L, uid, tok) ==
  {IF r.userId = uid /\ ~r.revoked THEN [r EXCEPT !.revoked = TRUE] ELSE r : r \in L}

\* RefreshToken.create({userId, token, expiresAt}); revoked defaults to false
NewRecord(rid, uid, tok, exp) ==
  [rid |-> rid, userId |-> uid, token |-> tok, expiresAt |-> exp, revoked |-> FALSE]

\* the insert of RefreshToken.create
InsertExclusive(L, rec) ==
  {IF r.userId = rec.userId THEN [r EXCEPT !.revoked = TRUE] ELSE r : r \in L} \cup {rec}
Insert(L, rec) == L \cup {rec}

\* deleteMany({$or: [{revoked: true}, {expiresAt: {$lte: new Date()}}]})
SweepKeepBoth(L, t) == {r \in L : ~(r.revoked /\ r.expiresAt <= t)}
SweepKeep(L, t) == {r \in L : ~(r.revoked \/ r.expiresAt <= t)}

NoRecord == NewRecord(0, 0, NoToken, 0)

Idle(p) == pc[p] = "idle"
Others(p) == Procs \ {p}
InFlightMints == Cardinality({p \in Procs : pc[p] \in {"revoke", "create", "l_create"}})

Init ==
  /\ now = 0
  /\ users = {}
  /\ nextUid = 1
  /\ ledger = {}
  /\ nextId = 1
  /\ pc = [p \in Procs |-> "idle"]
  /\ req = [p \in Procs |-> NoReq]
  /\ loc = [p \in Procs |-> NoLoc]
  /\ resp = NoResp
  /\ cookies = {}
  /\ bearer = {}
  /\ rotated = {}
  /\ lineage = [u \in UserIds |-> "none"]
  /\ lastIssued = [u \in UserIds |-> NoRecord]
  /\ loginsSince = [u \in UserIds |-> 0]
  /\ orders = <<>>
  /\ nextGw = 1
  /\ receipts = {}

\* the previous response has been written out
Ready == resp = NoResp

\* res.status(..).json(..): the response is sent and the handler is free
Finish(p, r) ==
  /\ pc' = [pc EXCEPT ![p] = "idle"]
  /\ req' = [req EXCEPT ![p] = NoReq]
  /\ loc' = [loc EXCEPT ![p] = NoLoc]
  /\ resp' = r

\* ----- POST /refresh-token (auth.js:43-94)
PresentedTokens == cookies \cup {ForgedToken}

\* lines 46-54: cookie check, findOne({token, revoked: false}), jwt.verify
RefreshLookup(p, tok) ==
  /\ Idle(p)
  /\ LET found == FindStored(ledger, tok)
     IN  IF tok = NoToken
           THEN Finish(p, Reply("refresh", 401))
         ELSE IF found = {}
           THEN Finish(p, Reply("refresh", 403))
         ELSE IF ~Verify(tok, now)
           THEN Finish(p, Reply("refresh", 500))
         ELSE /\ nextId + InFlightMints <= MaxRecords
              /\ pc' = [pc EXCEPT ![p] = "revoke"]
              /\ req' = [req EXCEPT ![p] = [op |-> "refresh", tok |-> tok]]
              /\ loc' = [loc EXCEPT ![p] = [NoLoc EXCEPT !.uid = tok.id, !.phone = tok.phone]]
              /\ resp' = NoResp
  /\ UNCHANGED <<now, users, nextUid, ledger, nextId, cookies, bearer, rotated,
                 lineage, lastIssued, loginsSince,
                 orders, nextGw, receipts>>

\* lines 56-73: updateMany revokes the user's tokens, then the new pair is signed
RefreshRevoke(p) ==
  /\ Ready
  /\ pc[p] = "revoke"
  /\ ledger' = RevokeAll(ledger, loc[p].uid, req[p].tok)
  /\ loc' = [loc EXCEPT ![p].acc = SignAccess(loc[p].uid, loc[p].phone, now,
                                               RefreshAccessTTL),
                        ![p].tok = Sign(loc[p].uid, loc[p].phone, now),
                        ![p].exp = now + RefreshTTL,
                        ![p].raced = \E q \in Others(p) :
                            /\ req[q].op = "refresh" /\ loc[q].uid = loc[p].uid
                            /\ req[q].tok # req[p].tok
                            /\ \/ pc[q] = "revoke"
                               \/ pc[q] = "create" /\ loc[q].raced]
  /\ pc' = [pc EXCEPT ![p] = "create"]
  /\ resp' = NoResp
  /\ UNCHANGED <<now, users, nextUid, nextId, req, cookies, bearer, rotated,
                 lineage, lastIssued, loginsSince,
                 orders, nextGw, receipts>>

\* lines 75-89: the new token is stored, set as cookie, and 200 is sent
RefreshCreate(p) ==
  /\ Ready
  /\ pc[p] = "create"
  /\ LET u == loc[p].uid
         rec == NewRecord(nextId, u, loc[p].tok, loc[p].exp)
     IN  /\ ledger' = Insert(ledger, rec)
         /\ nextId' = nextId + 1
         /\ cookies' = cookies \cup {loc[p].tok}
         /\ bearer' = bearer \cup {loc[p].acc}
         /\ rotated' = rotated \cup {req[p].tok}
         /\ LET chain == lineage[u] = "chain" /\ req[p].tok = lastIssued[u].token
            IN  /\ lineage' = [lineage EXCEPT ![u] = IF chain THEN "chain" ELSE "broken"]
                /\ lastIssued' = [lastIssued EXCEPT ![u] = IF chain THEN rec ELSE NoRecord]
         /\ loginsSince' = [loginsSince EXCEPT ![u] = 0]
         /\ Finish(p, Reply("refresh", 200))
  /\ UNCHANGED <<now, users, nextUid,
                 orders, nextGw, receipts>>

\* ----- POST /login (auth.js:156-214)
\* lines 158-186: field check, User.findOne({phone}), bcrypt.compare, jwt.sign
LoginFind(p, phone, pw) ==
  /\ Idle(p)
  /\ LET found == {u \in users : u.phone = phone}
     IN  IF phone = "" \/ pw = ""
           THEN Finish(p, Reply("login", 400))
         ELSE IF found = {}
           THEN Finish(p, LoginUnknownPhone)
         ELSE \E u \in found :
                IF ~Compare(pw, u.passwordHash)
                  THEN Finish(p, LoginWrongPassword)
                ELSE /\ nextId + InFlightMints <= MaxRecords
                     /\ pc' = [pc EXCEPT ![p] = "l_create"]
                     /\ req' = [req EXCEPT ![p] = [op |-> "login", tok |-> NoToken]]
                     /\ loc' = [loc EXCEPT ![p] =
                           [NoLoc EXCEPT !.uid = u.uid, !.phone = u.phone,
                                         !.acc = SignAccess(u.uid, u.phone, now,
                                                            LoginAccessTTL),
                                         !.tok = Sign(u.uid, u.phone, now),
                                         !.exp = now + RefreshTTL]]
                     /\ resp' = NoResp
  /\ UNCHANGED <<now, users, nextUid, ledger, nextId, cookies, bearer, rotated,
                 lineage, lastIssued, loginsSince,
                 orders, nextGw, receipts>>

\* lines 188-209: the refresh token is stored, set as cookie, and 200 is sent
LoginCreate(p) ==
  /\ Ready
  /\ pc[p] = "l_create"
  /\ LET u == loc[p].uid
         rec == NewRecord(nextId, u, loc[p].tok, loc[p].exp)
     IN  /\ ledger' = Insert(ledger, rec)
         /\ nextId' = nextId + 1
         /\ cookies' = cookies \cup {loc[p].tok}
         /\ bearer' = bearer \cup {loc[p].acc}
         /\ lineage' = [lineage EXCEPT ![u] = IF @ = "none" THEN "chain" ELSE "broken"]
         /\ lastIssued' = [lastIssued EXCEPT ![u] = IF lineage[u] = "none" THEN rec ELSE NoRecord]
         /\ loginsSince' = [loginsSince EXCEPT ![u] = @ + 1]
         /\ Finish(p, Reply("login", 200))
  /\ UNCHANGED <<now, users, nextUid, rotated,
                 orders, nextGw, receipts>>

\* ----- POST /logout (auth.js:217-235)
\* findOneAndUpdate({token}, {revoked: true}) updates ONE matching document;
\* which one, when several hold the token, is the store's choice.
LogoutOne(L, tok) ==
  LET found == {r \in L : r.token = tok}
  IN  IF found = {} THEN {L}
      ELSE {(L \ {r}) \cup {[r EXCEPT !.revoked = TRUE]} : r \in found}

Logout(p, tok) ==
  /\ Idle(p)
  /\ IF tok = NoToken
       THEN UNCHANGED <<ledger, lineage, lastIssued>>
     ELSE /\ ledger' \in LogoutOne(ledger, tok)
          /\ LET hit == {r.userId : r \in {r \in ledger : r.token = tok}}
             IN  /\ lineage' = [u \in UserIds |-> IF u \in hit THEN "broken" ELSE lineage[u]]
                 /\ lastIssued' = [u \in UserIds |-> IF u \in hit THEN NoRecord ELSE lastIssued[u]]
  /\ Finish(p, Reply("logout", 200))
  /\ UNCHANGED <<now, users, nextUid, nextId, cookies, bearer, rotated, loginsSince,
                 orders, nextGw, receipts>>

\* ----- GET /me behind authenticateToken (auth.js:16-31, 96-109)
PresentedAccess == bearer \cup cookies \cup {ForgedAccess}

\* authenticateToken: header check and jwt.verify; next() hands the request
\* to the route with req.user set to the token's payload
Authenticate(p, tok) ==
  /\ Idle(p)
  /\ IF tok = NoToken
       THEN Finish(p, Reply("me", 401))
     ELSE IF ~VerifyAccess(tok, now)
       THEN Finish(p, Reply("me", 403))
     ELSE /\ pc' = [pc EXCEPT ![p] = "me"]
          /\ req' = [req EXCEPT ![p] = [op |-> "me", tok |-> NoToken]]
          /\ loc' = [loc EXCEPT ![p] = [NoLoc EXCEPT !.uid = tok.id, !.phone = tok.phone]]
          /\ resp' = NoResp
  /\ UNCHANGED <<now, users, nextUid, ledger, nextId, cookies, bearer, rotated,
                 lineage, lastIssued, loginsSince,
                 orders, nextGw, receipts>>

\* lines 99-104: User.findById(req.user.id)
MeFind(p) ==
  /\ Ready
  /\ pc[p] = "me"
  /\ IF \E u \in users : u.uid = loc[p].uid
       THEN Finish(p, Reply("me", 200))
     ELSE Finish(p, Reply("me", 404))
  /\ UNCHANGED <<now, users, nextUid, ledger, nextId, cookies, bearer, rotated,
                 lineage, lastIssued, loginsSince,
                 orders, nextGw, receipts>>

\* ----- POST /register (auth.js:111-154)
\* the unique indexes the Credential Store keeps on phone and on email
UniqueViolation(U, phone, email) ==
  \E u \in U : u.phone = phone \/ u.email = email

\* lines 113-134: validation, then User.findOne({phone})
RegisterFindPhone(p, phone, email, pw, valid) ==
  /\ Idle(p)
  /\ IF ~valid
       THEN Finish(p, Reply("register", 400))
     ELSE IF \E u \in users : u.phone = phone
       THEN Finish(p, RegisterPhoneTaken)
     ELSE /\ pc' = [pc EXCEPT ![p] = "g_email"]
          /\ req' = [req EXCEPT ![p] = [op |-> "register", tok |-> NoToken]]
          /\ loc' = [loc EXCEPT ![p] =
                [NoLoc EXCEPT !.phone = phone, !.email = email, !.pw = pw]]
          /\ resp' = NoResp
  /\ UNCHANGED <<now, users, nextUid, ledger, nextId, cookies, bearer, rotated,
                 lineage, lastIssued, loginsSince,
                 orders, nextGw, receipts>>

\* lines 136-144: User.findOne({email}), then bcrypt.hash
RegisterFindEmail(p) ==
  /\ Ready
  /\ pc[p] = "g_email"
  /\ IF \E u \in users : u.email = loc[p].email
       THEN Finish(p, RegisterEmailTaken)
     ELSE /\ pc' = [pc EXCEPT ![p] = "g_save"]
          /\ resp' = NoResp
          /\ UNCHANGED <<req, loc>>
  /\ UNCHANGED <<now, users, nextUid, ledger, nextId, cookies, bearer, rotated,
                 lineage, lastIssued, loginsSince,
                 orders, nextGw, receipts>>

\* lines 146-153: user.save(); a duplicate key is thrown into the catch block
RegisterSave(p) ==
  /\ Ready
  /\ pc[p] = "g_save"
  /\ IF UniqueViolation(users, loc[p].phone, loc[p].email)
       THEN /\ Finish(p, Reply("register", 500))
            /\ UNCHANGED <<users, nextUid>>
     ELSE /\ users' = users \cup {[uid |-> nextUid, phone |-> loc[p].phone,
                                   email |-> loc[p].email,
                                   passwordHash |-> Hash(loc[p].pw)]}
          /\ nextUid' = nextUid + 1
          /\ Finish(p, Reply("register", 201))
  /\ UNCHANGED <<now, ledger, nextId, cookies, bearer, rotated, lineage,
                 lastIssued, loginsSince,
                 orders, nextGw, receipts>>

\* ----- the catch blocks (auth.js:90-93, 150-153, 210-213, 231-234):
\* a store call that throws ends the request with 500; what the handler
\* wrote before the call stays written.
StoreFail(p) ==
  /\ Ready
  /\ ~Idle(p)
  /\ LET hit(u) == pc[p] = "create" /\ loc[p].uid = u
     IN  /\ lineage' = [u \in UserIds |-> IF hit(u) THEN "broken" ELSE lineage[u]]
         /\ lastIssued' = [u \in UserIds |-> IF hit(u) THEN NoRecord ELSE lastIssued[u]]
  /\ Finish(p, Reply(req[p].op, 500))
  /\ UNCHANGED <<now, users, nextUid, ledger, nextId, cookies, bearer, rotated, loginsSince,
                 orders, nextGw, receipts>>

\* the first store call of a request throws
StoreFailFirst(p, op) ==
  /\ Idle(p)
  /\ Finish(p, Reply(op, 500))
  /\ UNCHANGED <<now, users, nextUid, ledger, nextId, cookies, bearer, rotated,
                 lineage, lastIssued, loginsSince,
                 orders, nextGw, receipts>>

\* ----- cleanup
\* cron.schedule("* * * * *", ...) of server.js:66-78 and Server.js:20-32
Sweep ==
  /\ Ready
  /\ ledger' = SweepKeep(ledger, now)
  /\ resp' = NoResp
  /\ UNCHANGED <<now, users, nextUid, nextId, pc, req, loc, cookies, bearer,
                 rotated, lineage, lastIssued, loginsSince,
                 orders, nextGw, receipts>>

\* the TTL index on expiresAt (RefreshToken.js:20, expireAfterSeconds: 0)
TTLExpire ==
  /\ Ready
  /\ ledger' = {r \in ledger : r.expiresAt > now}
  /\ resp' = NoResp
  /\ UNCHANGED <<now, users, nextUid, nextId, pc, req, loc, cookies, bearer,
                 rotated, lineage, lastIssued, loginsSince,
                 orders, nextGw, receipts>>

\* the wall clock; a handler's run is short against the clock's unit, so the
\* clock is read as advancing between requests
Tick ==
  /\ Ready
  /\ now < MaxTime
  /\ \A p \in Procs : Idle(p)
  /\ now' = now + 1
  /\ resp' = NoResp
  /\ UNCHANGED <<users, nextUid, ledger, nextId, pc, req, loc, cookies, bearer,
                 rotated, lineage, lastIssued, loginsSince,
                 orders, nextGw, receipts>>

\* ----- specifications
AllIdle == \A q \in Procs : Idle(q)

\* a request arrives
Start(p) ==
  \/ \E tok \in PresentedTokens \cup {NoToken} : RefreshLookup(p, tok)
  \/ \E phone \in Phones \cup {""}, pw \in Passwords : LoginFind(p, phone, pw)
  \/ \E tok \in PresentedTokens \cup {NoToken} : Logout(p, tok)
  \/ \E tok \in PresentedAccess \cup {NoToken} : Authenticate(p, tok)
  \/ \E phone \in Phones, email \in Emails, pw \in RegPasswords, valid \in BOOLEAN :
        RegisterFindPhone(p, phone, email, pw, valid)
  \/ \E op \in {"refresh", "login", "logout", "register"} : StoreFailFirst(p, op)

\* a suspended handler resumes
Continue(p) ==
  \/ RefreshRevoke(p)
  \/ RefreshCreate(p)
  \/ LoginCreate(p)
  \/ MeFind(p)
  \/ RegisterFindEmail(p)
  \/ RegisterSave(p)
  \/ StoreFail(p)

Env == Sweep \/ TTLExpire \/ Tick

\* res.json() has written the response; the event loop takes the next callback
Flush ==
  /\ resp # NoResp
  /\ resp' = NoResp
  /\ UNCHANGED <<now, users, nextUid, ledger, nextId, pc, req, loc, cookies, bearer,
                 rotated, lineage, lastIssued, loginsSince,
                 orders, nextGw, receipts>>

\* handlers interleave at their store calls; a request takes the lowest free
\* handler slot
LowestIdle(p) == Idle(p) /\ \A q \in Procs : q < p => ~Idle(q)

Next ==
  \/ \E p \in Procs : (Ready /\ LowestIdle(p) /\ Start(p)) \/ Continue(p)
  \/ Env
  \/ Flush

Spec == Init /\ [][Next]_vars

\* requests are served one at a time; cleanup and the clock run freely
SeqNext ==
  \/ \E p \in Procs : (Ready /\ AllIdle /\ LowestIdle(p) /\ Start(p)) \/ Continue(p)
  \/ Env
  \/ Flush

SeqSpec == Init /\ [][SeqNext]_vars

\* ======================================================================
\* Orders and payment verification (routes/orderRoutes.js, models/Order.js)
\* ======================================================================
\* crypto.createHmac("sha256", RAZORPAY_KEY_SECRET).update(order_id + "|" +
\* payment_id).digest("hex"): a function of the two ids and the secret
Hmac(order, payment) == <<"hmac", order, payment>>

NoReceipt == [order |-> 0, payment |-> 0, sig |-> <<>>]

\* what a /orders/verify body can carry: a receipt the gateway issued, or the
\* ids of one with a signature the gateway did not make
ForgedReceipts ==
  {[order |-> g, payment |-> g, sig |-> <<"forged">>] : g \in 1..(nextGw - 1)}
PresentedReceipts == receipts \cup ForgedReceipts

\* Order.create({...}) of orderRoutes.js:41-56 with the defaults of Order.js
NewOrder(uid, gw) ==
  [user |-> uid, razorpayOrderId |-> gw, paymentStatus |-> "PENDING",
   orderStatus |-> "PLACED"]

\* the checkout of the gateway: the client pays a gateway order it was told
\* of and receives the payment id with the gateway's signature
GatewayPay(g) ==
  /\ Ready
  /\ \E i \in DOMAIN orders : orders[i].razorpayOrderId = g
  /\ receipts' = receipts \cup {[order |-> g, payment |-> g, sig |-> Hmac(g, g)]}
  /\ resp' = NoResp
  /\ UNCHANGED <<now, users, nextUid, ledger, nextId, pc, req, loc, cookies,
                 bearer, rotated, lineage, lastIssued, loginsSince, orders, nextGw>>

\* authenticateToken in front of an order route
Admitted(tok) == tok # NoToken /\ VerifyAccess(tok, now)

\* POST /orders/create, lines 14-38: the gate, the cart checks and
\* razorpay.orders.create
OrderCreateGateway(p, tok, cart) ==
  /\ Idle(p)
  /\ IF ~Admitted(tok)
       THEN /\ Finish(p, Reply("orders/create", IF tok = NoToken THEN 401 ELSE 403))
            /\ UNCHANGED nextGw
     ELSE IF cart = "empty"
       THEN /\ Finish(p, ReplyError("orders/create", 400, "Cart is empty"))
            /\ UNCHANGED nextGw
     ELSE IF cart = "zero"
       THEN /\ Finish(p, ReplyError("orders/create", 400, "Invalid order amount"))
            /\ UNCHANGED nextGw
     ELSE /\ nextGw <= MaxOrders
          /\ nextGw' = nextGw + 1
          /\ pc' = [pc EXCEPT ![p] = "o_store"]
          /\ req' = [req EXCEPT ![p] = [op |-> "orders/create", tok |-> NoToken]]
          /\ loc' = [loc EXCEPT ![p] = [NoLoc EXCEPT !.uid = tok.id, !.gw = nextGw]]
          /\ resp' = NoResp
  /\ UNCHANGED <<now, users, nextUid, ledger, nextId, cookies, bearer, rotated,
                 lineage, lastIssued, loginsSince, orders, receipts>>

\* lines 41-65: Order.create and the response
OrderCreateStore(p) ==
  /\ Ready
  /\ pc[p] = "o_store"
  /\ orders' = Append(orders, NewOrder(loc[p].uid, loc[p].gw))
  /\ Finish(p, Reply("orders/create", 200))
  /\ UNCHANGED <<now, users, nextUid, ledger, nextId, cookies, bearer, rotated,
                 lineage, lastIssued, loginsSince, nextGw, receipts>>

\* POST /orders/verify, lines 77-101/106-107: the gate, the field check,
\* Order.findById and the signature comparison, which sets the loaded
\* document's paymentStatus
OrderVerifyFind(p, tok, oid, rcp) ==
  /\ Idle(p)
  /\ IF ~Admitted(tok)
       THEN Finish(p, Reply("orders/verify", IF tok = NoToken THEN 401 ELSE 403))
     ELSE IF rcp = NoReceipt
       THEN Finish(p, ReplyError("orders/verify", 400, "Missing payment details"))
     ELSE IF oid \notin DOMAIN orders
       THEN Finish(p, Reply("orders/verify", 404))
     ELSE /\ pc' = [pc EXCEPT ![p] = "v_save"]
          /\ req' = [req EXCEPT ![p] = [op |-> "orders/verify", tok |-> NoToken]]
          /\ loc' = [loc EXCEPT ![p] =
                [NoLoc EXCEPT !.uid = tok.id, !.oid = oid, !.gw = rcp.order,
                              !.pay = IF Hmac(rcp.order, rcp.payment) = rcp.sig
                                        THEN "PAID" ELSE "FAILED"]]
          /\ resp' = NoResp
  /\ UNCHANGED <<now, users, nextUid, ledger, nextId, cookies, bearer, rotated,
                 lineage, lastIssued, loginsSince, orders, nextGw, receipts>>

\* lines 102-103 and 108-110: order.save() writes the fields that were set
OrderVerifySave(p) ==
  /\ Ready
  /\ pc[p] = "v_save"
  /\ IF loc[p].pay = "PAID"
       THEN /\ orders' = [orders EXCEPT ![loc[p].oid].paymentStatus = "PAID",
                                        ![loc[p].oid].orderStatus = "CONFIRMED"]
            /\ Finish(p, Reply("orders/verify", 200))
       ELSE /\ orders' = [orders EXCEPT ![loc[p].oid].paymentStatus = "FAILED"]
            /\ Finish(p, ReplyError("orders/verify", 400, "Invalid payment signature"))
  /\ UNCHANGED <<now, users, nextUid, ledger, nextId, cookies, bearer, rotated,
                 lineage, lastIssued, loginsSince, nextGw, receipts>>

\* a user is registered and signed in: the state after POST /register and
\* POST /login at clock 0
SignedIn ==
  LET phone == "9999999999"
      rec == NewRecord(1, 1, Sign(1, phone, 0), RefreshTTL)
  IN  /\ now = 0
      /\ users = {[uid |-> 1, phone |-> phone, email |-> "a@b.com",
                   passwordHash |-> Hash("longenough1")]}
      /\ nextUid = 2
      /\ ledger = {rec}
      /\ nextId = 2
      /\ pc = [p \in Procs |-> "idle"]
      /\ req = [p \in Procs |-> NoReq]
      /\ loc = [p \in Procs |-> NoLoc]
      /\ resp = NoResp
      /\ cookies = {rec.token}
      /\ bearer = {SignAccess(1, phone, 0, LoginAccessTTL)}
      /\ rotated = {}
      /\ lineage = [u \in UserIds |-> "chain"]
      /\ lastIssued = [u \in UserIds |-> rec]
      /\ loginsSince = [u \in UserIds |-> 1]
      /\ orders = <<>>
      /\ nextGw = 1
      /\ receipts = {}

OrderInit == SignedIn

OrderStart(p) ==
  \/ \E tok \in PresentedAccess \cup {NoToken}, cart \in {"empty", "zero", "ok"} :
        OrderCreateGateway(p, tok, cart)
  \/ \E tok \in PresentedAccess \cup {NoToken}, oid \in 1..(MaxOrders + 1),
         rcp \in PresentedReceipts \cup {NoReceipt} :
        OrderVerifyFind(p, tok, oid, rcp)
  \/ \E op \in {"orders/create", "orders/verify"} : StoreFailFirst(p, op)

OrderNext ==
  \/ \E p \in Procs :
        \/ Ready /\ LowestIdle(p) /\ OrderStart(p)
        \/ OrderCreateStore(p)
        \/ OrderVerifySave(p)
        \/ StoreFail(p)
  \/ \E g \in 1..MaxOrders : GatewayPay(g)
  \/ Flush

\* the order routes, with the session state held as sign-in left it
OrderSpec == OrderInit /\ [][OrderNext]_vars

\* ======================================================================
\* Properties
\* ======================================================================
Refresh200 == Reply("refresh", 200)
Refresh403 == Reply("refresh", 403)

\* ----- C1  Rotation invalidation: with requests served one at a time, once
\* a Refresh presenting token T has answered 200, every later Refresh
\* presenting T is answered 403 and changes nothing in the ledger.
C1_RotationInvalidation ==
  [][\A p \in Procs : \A tok \in rotated :
       RefreshLookup(p, tok) =>
         /\ resp' = Refresh403
         /\ pc'[p] = "idle"
         /\ ledger' = ledger]_vars

\* ----- C2  Single active lineage: after one Login of a user followed by any
\* number of successful Refresh calls, each presenting the token issued last
\* and none overlapping, exactly one document of the user is ACTIVE
\* (non-revoked, unexpired) and it is the document created last.
C2_SingleActiveLineage ==
  \A u \in UserIds :
    (AllIdle /\ lineage[u] = "chain" /\ lastIssued[u].expiresAt > now)
      => Active(ledger, u, now) = {lastIssued[u]}

\* two refreshes down the chain of one login
C2_Witness ==
  \E u \in UserIds :
    /\ AllIdle /\ lineage[u] = "chain" /\ lastIssued[u].expiresAt > now
    /\ Cardinality(rotated) = 2
    /\ resp = Refresh200

\* ----- C3  Revoke-all on rotation: the revocation step of a Refresh leaves
\* no document of the user non-revoked, sibling sessions of other logins
\* included, and right after a Refresh that no other request overlapped the
\* only non-revoked document of the user is the one just created.
C3_RevokeAllOnRotation ==
  [][\A p \in Procs :
       /\ RefreshRevoke(p) => NonRevoked(ledger', loc[p].uid) = {}
       /\ RefreshCreate(p) =>
            NonRevoked(ledger', loc[p].uid) =
              {NewRecord(nextId, loc[p].uid, loc[p].tok, loc[p].exp)}]_vars

\* a Refresh has just revoked the presented token and a sibling session
C3_Witness ==
  \E u \in UserIds :
    /\ AllIdle /\ resp = Refresh200
    /\ Cardinality({r \in ledger : r.userId = u /\ r.revoked}) = 2
    /\ Cardinality(NonRevoked(ledger, u)) = 1
    /\ loginsSince[u] = 0
    /\ nextId = 4

\* ----- C4  One active token per user: with requests served one at a time,
\* every user has at most one non-revoked, unexpired document.
C4_OneActivePerUser ==
  \A u \in UserIds : Cardinality(Active(ledger, u, now)) <= 1

\* C4 as amended: Login revokes nothing, so a user has at most one
\* non-revoked, unexpired document per Login completed since the user's last
\* successful Refresh, plus the one that Refresh created.
C4_OneActivePerLoginSinceRefresh ==
  \A u \in UserIds :
    Cardinality(Active(ledger, u, now)) <=
      loginsSince[u] + (IF \E t \in rotated : t.id = u THEN 1 ELSE 0)

\* a rotated session and a later login side by side
C4_Witness ==
  \E u \in UserIds :
    /\ AllIdle
    /\ \E t \in rotated : t.id = u
    /\ loginsSince[u] = 1
    /\ Cardinality(Active(ledger, u, now)) = 2

\* ----- C5  Accepted refresh race: two Refresh calls of one user presenting
\* different non-revoked tokens can both pass the lookup before either
\* revokes; nothing after the lookup turns a call away, and storing the new
\* token revokes nothing, so both answer 200 and both new documents stay
\* non-revoked.
C5_AcceptedRefreshRace ==
  [][\A p \in Procs :
       /\ RefreshRevoke(p) => pc'[p] = "create"
       /\ RefreshCreate(p) =>
            /\ resp' = Refresh200
            /\ NonRevoked(ledger', loc[p].uid) =
                 NonRevoked(ledger, loc[p].uid)
                   \cup {NewRecord(nextId, loc[p].uid, loc[p].tok, loc[p].exp)}]_vars

\* one call has answered 200 and its new document is live while the other
\* call, past its own revocation, is about to store a second one
C5_Witness ==
  \E p \in Procs :
    /\ pc[p] = "create" /\ req[p].op = "refresh" /\ loc[p].raced
    /\ resp = Refresh200
    /\ req[p].tok \notin rotated
    /\ \E r \in NonRevoked(ledger, loc[p].uid) : r.rid = nextId - 1

\* ----- C6  Lineage branching needs overlap: when Refresh calls do not
\* overlap, no token is the presented token of two Refresh calls that
\* answer 200.
C6_NoBranchWithoutOverlap ==
  [][\A p \in Procs : RefreshCreate(p) => req[p].tok \notin rotated]_vars

\* ----- C7  The token minted by a Refresh differs from the presented token,
\* and the token minted by a Login or a Refresh differs from every token
\* already stored, however close in time the two mintings are.
C7_MintedTokenIsFresh ==
  [][\A p \in Procs :
       /\ RefreshCreate(p) => loc[p].tok # req[p].tok
       /\ (RefreshCreate(p) \/ LoginCreate(p)) =>
            \A r \in ledger : r.token # loc[p].tok]_vars

\* ----- C8  Rejected Refresh has no effect: a Refresh without cookie is
\* answered 401, a Refresh whose token has no non-revoked document is
\* answered 403, and in both cases no document is created, revoked or
\* deleted and no cookie is set.
C8_RejectedRefreshNoEffect ==
  [][\A p \in Procs : \A tok \in PresentedTokens \cup {NoToken} :
       ((tok = NoToken \/ \A r \in ledger : r.token = tok => r.revoked)
          /\ RefreshLookup(p, tok))
       => /\ resp' = Reply("refresh", IF tok = NoToken THEN 401 ELSE 403)
          /\ pc'[p] = "idle"
          /\ ledger' = ledger /\ nextId' = nextId /\ cookies' = cookies]_vars

\* a token that was rotated away is still in a cookie jar and a Refresh
\* has just been turned away with 403
C8_Witness ==
  /\ resp = Refresh403
  /\ \E t \in cookies : t \in rotated /\ FindStoredAnyState(ledger, t) # {}
                        /\ \A r \in FindStoredAnyState(ledger, t) : r.revoked

\* ----- C9  A Refresh whose token has a non-revoked document but fails
\* verification (expired) is answered 401 or 403, not 500, and changes
\* nothing in the ledger.
C9_ExpiredTokenIsAuthFailure ==
  [][\A p \in Procs : \A tok \in PresentedTokens :
       (RefreshLookup(p, tok)
          /\ {r \in ledger : r.token = tok /\ ~r.revoked} # {}
          /\ ~Verify(tok, now))
       => /\ resp'.status \in {401, 403}
          /\ ledger' = ledger]_vars

\* ----- C10  Logout revokes the session: once a Logout presenting token T
\* has completed, no document holding T is non-revoked.
C10_LogoutRevokesToken ==
  [][\A p \in Procs : \A tok \in PresentedTokens :
       Logout(p, tok) => \A r \in ledger' : r.token = tok => r.revoked]_vars

C12_RegistrationUniqueness ==
  [][/\ \A u, v \in users' : (u.phone = v.phone \/ u.email = v.email) => u = v
     /\ \A p \in Procs :
          /\ \A phone \in Phones, email \in Emails, pw \in RegPasswords :
               (RegisterFindPhone(p, phone, email, pw, TRUE)
                  /\ \E u \in users : u.phone = phone)
               => resp'.status = 409 /\ users' = users
          /\ (RegisterFindEmail(p) /\ \E u \in users : u.email = loc[p].email)
               => resp'.status = 409 /\ users' = users
          /\ (RegisterSave(p)
                  /\ \E u \in users : u.phone = loc[p].phone \/ u.email = loc[p].email)
               => resp'.status = 409 /\ users' = users]_vars

\* ----- C13  Generic login failure: Login with an unknown phone and Login
\* with a registered phone and a wrong password are answered alike, 401 with
\* the one error text, and neither stores a refresh token nor sets a cookie.
C13_GenericLoginFailure ==
  [][\A p \in Procs : \A phone \in Phones, pw \in Passwords :
       (LoginFind(p, phone, pw)
          /\ \/ \A u \in users : u.phone # phone
             \/ \E u \in users : u.phone = phone /\ ~Compare(pw, u.passwordHash))
       => /\ resp' = ReplyError("login", 401, "Invalid phone or password.")
          /\ pc'[p] = "idle"
          /\ ledger' = ledger /\ nextId' = nextId /\ cookies' = cookies]_vars

\* a registered phone has just been turned away for its password
C13_Witness ==
  /\ resp = ReplyError("login", 401, "Invalid phone or password.")
  /\ \E u \in users : u.phone \in Phones

\* ----- C14  Access-token independence: authenticateToken admits a request
\* exactly when the access token carries the server's signature and has not
\* expired, whatever the Token Ledger and the Credential Store hold (tokens
\* revoked by Logout or Refresh, records swept), and the check touches
\* neither.
C14_AccessTokenIndependence ==
  [][\A p \in Procs : \A tok \in PresentedAccess \cup {NoToken} :
       Authenticate(p, tok) =>
         /\ pc'[p] = "me" <=> (tok.sig = "access" /\ now < tok.exp)
         /\ pc'[p] # "me" =>
              resp' = Reply("me", IF tok = NoToken THEN 401 ELSE 403)
         /\ ledger' = ledger /\ users' = users]_vars

\* a request is admitted on an access token whose user has no refresh
\* token left in the ledger
C14_Witness ==
  \E p \in Procs :
    /\ pc[p] = "me"
    /\ \E t \in cookies : t.id = loc[p].uid
    /\ \A r \in ledger : r.userId # loc[p].uid

\* ----- C15  Sweep removes exactly the dead records: a sweep run deletes
\* every document that is revoked or whose expiresAt has passed and no
\* other; a non-revoked, unexpired document survives every sweep run,
\* whatever handlers are in flight, and its token still passes the lookup
\* and the verification of Refresh afterwards.
C15_SweepRemovesExactlyDead ==
  [][Sweep =>
       /\ \A r \in ledger : (r.revoked \/ r.expiresAt <= now) => r \notin ledger'
       /\ \A r \in ledger :
            (~r.revoked /\ r.expiresAt > now) =>
              /\ r \in ledger'
              /\ FindStored(ledger', r.token) # {}
              /\ Verify(r.token, now) => Verify(r.token, now')
       /\ ledger' \subseteq ledger]_vars

\* the revoked document of a rotated, unexpired token is gone while a live
\* document is still there, with a handler in flight
C15_Witness ==
  /\ \E t \in rotated : t.exp > now /\ FindStoredAnyState(ledger, t) = {}
  /\ \E r \in ledger : IsActive(r, now)
  /\ ~AllIdle

\* ----- C16  Refresh is all-or-nothing on the ledger: with requests served
\* one at a time, a Refresh that ends in an error response, a store failure
\* at the lookup, the revoke-all or the create included, has changed nothing:
\* the token it presented, non-revoked when the call looked it up, is still
\* non-revoked when the error is sent.
C16_RefreshAllOrNothing ==
  [][\A p \in Procs :
       /\ \A tok \in PresentedTokens \cup {NoToken} :
            (RefreshLookup(p, tok) /\ pc'[p] = "idle") => ledger' = ledger
       /\ StoreFailFirst(p, "refresh") => ledger' = ledger
       /\ (StoreFail(p) /\ req[p].op = "refresh") =>
            FindStored(ledger', req[p].tok) # {}]_vars

\* ----- C17  Payment status PAID is final: once /orders/verify has set an
\* order's paymentStatus to PAID no later /orders/verify changes it, and the
\* only changes of paymentStatus are PENDING -> PAID and PENDING -> FAILED.
C17_PaidIsFinal ==
  [][\A i \in DOMAIN orders :
       orders'[i].paymentStatus # orders[i].paymentStatus =>
         /\ orders[i].paymentStatus = "PENDING"
         /\ orders'[i].paymentStatus \in {"PAID", "FAILED"}]_vars

\* ----- C18  Payment binding: /orders/verify marks an order PAID only on a
\* signature that is valid for a razorpay_order_id equal to the order's own
\* razorpayOrderId; a receipt for one gateway order never marks another
\* local order PAID.
C18_PaymentBinding ==
  [][\A p \in Procs :
       (OrderVerifySave(p) /\ orders'[loc[p].oid].paymentStatus = "PAID") =>
         /\ loc[p].gw = orders[loc[p].oid].razorpayOrderId
         /\ \E r \in receipts : r.order = orders[loc[p].oid].razorpayOrderId]_vars

====
